---- MODULE Spec2Model ----
(***************************************************************************)
(* A model of one node of networkchain (src/networkchain/main.go): its     *)
(* peer list, its ledger and mempool, the framing of the messages it reads *)
(* and writes, and the handler of each protocol command.                   *)
(*                                                                         *)
(* The specifications share the handlers' definitions:                     *)
(*   Spec          the handlers, run one at a time, each on a request that *)
(*                 holds the command field followed by the encoded payload *)
(*                 (as the send functions build it);                       *)
(*   NodeSpec      the node as StartNode wires it: the accept loop hands   *)
(*                 each connection to handleConnection, which reads the    *)
(*                 request into its commandLength-byte buffer and          *)
(*                 dispatches on it;                                       *)
(*   SyncSpec      the handlers of getblocks, inv, getdata, block and tx,  *)
(*                 run one at a time on full requests;                     *)
(*   CodecSpec     commandToBytes and bytesToCommand on command names;     *)
(*   LedgerSpec    the ledger alone: main's chain and the ledger's         *)
(*                 operations;                                             *)
(*   ConcSpec      the handlers of tx, version and addr as goroutines that *)
(*                 interleave on the shared state;                         *)
(*   ExchangeSpec  the version exchange between two nodes.                 *)
(*                                                                         *)
(* Bytes are numbers 0..255, strings of the wire are sequences of bytes,   *)
(* addresses are strings.  The ledger (Blockchain, MineBlock, ...) and the *)
(* inv/getblocks senders are not in main.go; they follow spec.md.          *)
(***************************************************************************)
EXTENDS Integers, Sequences, FiniteSets, TLC

VARIABLES
  nodeAddress,   \* var nodeAddress string
  knownNodes,    \* var knownNodes []string
  Blocks,        \* bc.Blocks, the chain of the node's Blockchain
  Mempool,       \* bc.Mempool, the pending transactions
  proc,          \* "off" before StartNode, "serving", or "panic" (process dead)
  cause,         \* which log.Panic ended the process ("" while it lives)
  sent,          \* the sendData calls of the operation in progress, in order
  last,          \* the operation in progress: handler, remote end, what the
                 \* peer wrote and the request the handler was given
  codec,         \* CodecSpec: a command name on its way through the codec
  routines,      \* ConcSpec: the handleConnection goroutines, each with its
                 \* position and its local variables
  exchange       \* ExchangeSpec: the peer node and the messages in flight

vars == <<nodeAddress, knownNodes, Blocks, Mempool, proc, cause, sent, last,
          codec, routines, exchange>>

\* The state of the specifications a step of the node's own life leaves alone.
others == <<codec, routines, exchange>>

---------------------------------------------------------------------------
(* Bounds of the model *)

MaxHeight == 2        \* handlers stop extending a chain of this many blocks
MaxTx == 2            \* distinct transactions peers submit
MaxAddrList == 2      \* longest AddrList of an addr message
MaxNonce == 1         \* ping/pong nonces are 0..MaxNonce
MaxPeerVersion == 2   \* peers announce protocol versions 0..MaxPeerVersion

---------------------------------------------------------------------------
(* Constants of the program *)

nodeVersion == 1
commandLength == 12

\* The command names, as the bytes of their ASCII text.
cmdVersion   == <<118, 101, 114, 115, 105, 111, 110>>
cmdGetBlocks == <<103, 101, 116, 98, 108, 111, 99, 107, 115>>
cmdInv       == <<105, 110, 118>>
cmdGetData   == <<103, 101, 116, 100, 97, 116, 97>>
cmdBlock     == <<98, 108, 111, 99, 107>>
cmdTx        == <<116, 120>>
cmdAddr      == <<97, 100, 100, 114>>
cmdGetAddr   == <<103, 101, 116, 97, 100, 100, 114>>
cmdPing      == <<112, 105, 110, 103>>
cmdPong      == <<112, 111, 110, 103>>

\* knownNodes' initial value: the one bootstrap address.
BootstrapNodes == <<"localhost:3000">>
Bootstrap == BootstrapNodes[1]

\* The addresses of the model's network, and the zero value of a string.
Addrs == {"localhost:3000", "localhost:3001", "localhost:3002", "localhost:3003"}
NoAddr == ""

---------------------------------------------------------------------------
(* Wire codec *)

Min(a, b) == IF a < b THEN a ELSE b

\* The first n elements of s, and s without them (s[n:] of a Go slice).
Take(s, n) == SubSeq(s, 1, Min(n, Len(s)))
Drop(s, n) == SubSeq(s, n + 1, Len(s))

\* bytesToCommand keeps every non-zero byte of the field, in order.
bytesToCommand(data) == SelectSeq(data, LAMBDA b : b # 0)

\* commandToBytes writes the name's bytes into a zeroed commandLength array.
\* (Defined for names that fit; a longer name indexes past the array.)
commandToBytes(command) ==
  [i \in 1..commandLength |-> IF i <= Len(command) THEN command[i] % 256 ELSE 0]

\* gob writes a struct as its type (the field names) and its field values; the
\* model keeps the struct as one element of the stream.
gobEncode(data) == <<data>>

\* gob reads the next value of the stream into the target: end of input is an
\* error (io.EOF), a struct sharing no field name with the target is an
\* error, and a field the stream does not carry keeps the target's zero
\* value.  zero is the target as declared (var payload T).
gobDecode(data, zero) ==
  IF data = <<>>
  THEN [err |-> TRUE, value |-> zero]
  ELSE IF DOMAIN data[1] \cap DOMAIN zero = {}
  THEN [err |-> TRUE, value |-> zero]
  ELSE [err |-> FALSE,
        value |-> [f \in DOMAIN zero |->
                     IF f \in DOMAIN data[1] THEN data[1][f] ELSE zero[f]]]

\* The zero values of the payload structs ("var payload T").
ZeroVersion == [Version |-> 0, BestHeight |-> 0, AddrFrom |-> NoAddr]
ZeroTx      == [AddrFrom |-> NoAddr, Transaction |-> <<>>]
ZeroAddr    == [AddrList |-> <<>>]
ZeroGetAddr == [AddrFrom |-> NoAddr]
\* handlePing and handlePong read payload.AddrFrom and payload.Nonce.
ZeroPing    == [AddrFrom |-> NoAddr, Nonce |-> 0]
ZeroPong    == [AddrFrom |-> NoAddr, Nonce |-> 0]

---------------------------------------------------------------------------
(* Ledger (spec.md 3 and 4.1; the Blockchain type is not in main.go) *)

\* Transactions, identified by their content; Serialize and
\* DeserializeTransaction turn one into bytes and back.
TxId(i) == <<"txid", i>>
Transactions == {[ID |-> TxId(i)] : i \in 1..MaxTx}
Serialize(tx) == <<tx.ID>>
DeserializeTransaction(data) == [ID |-> data[1]]

\* selfHash = Hash(payload || createdAt || previousHash), a perfect hash.
Hash(payload, createdAt, previousHash) == <<payload, createdAt, previousHash>>
GenesisPreviousHash == <<>>

NewBlock(payload, createdAt, previousHash) ==
  [payload |-> payload, createdAt |-> createdAt, previousHash |-> previousHash,
   selfHash |-> Hash(payload, createdAt, previousHash)]

\* NewBlockchain: a chain holding only the genesis block.
NewBlockchain == <<NewBlock(<<>>, 0, GenesisPreviousHash)>>

\* (mutant) the new block does not take the tip's hash.
AddBlockUnlinked(blocks, payload) ==
  Append(blocks, NewBlock(payload, Len(blocks), GenesisPreviousHash))

\* AddBlock appends a block linked to the tip; the clock is the block count.
AddBlock(blocks, payload) ==
  Append(blocks, NewBlock(payload, Len(blocks), blocks[Len(blocks)].selfHash))

\* GetBestHeight (Height() of the spec): the number of blocks.
GetBestHeight(blocks) == Len(blocks)

InMempool(mempool, tx) == \E i \in 1..Len(mempool) : mempool[i].ID = tx.ID

\* AddTxToMempool (AddTransaction): insert unless the id is already there.
AddTxToMempool(mempool, tx) ==
  IF InMempool(mempool, tx) THEN mempool ELSE Append(mempool, tx)

\* MineBlock folds the mempool into a new block and clears it.
MineBlock(blocks, mempool) ==
  [Blocks |-> AddBlock(blocks, mempool), Mempool |-> <<>>]

---------------------------------------------------------------------------
(* Sending *)

\* What one sendData call can meet: the dial and the write succeed, the dial
\* fails, or the dial succeeds and the write fails.
Outcomes == {"ok", "dial", "write"}

\* sendData(address, data) under outcome o: a failed dial prints and returns,
\* a failed write reaches log.Panic.  Nothing listens at the empty address.
sendData(address, data, o) ==
  [to |-> address, data |-> data,
   result |-> IF address = NoAddr \/ o = "dial" THEN "unavailable"
              ELSE IF o = "write" THEN "panic"
              ELSE "written"]

\* The calls a handler makes, one after the other, each under its outcome:
\* the calls up to and including the first that panics.
FirstPanic(outs, net) ==
  LET bad == {i \in 1..Len(outs) :
                sendData(outs[i].to, outs[i].data, net[i]).result = "panic"}
  IN IF bad = {} THEN 0 ELSE CHOOSE i \in bad : \A j \in bad : i <= j

Transmit(outs, net) ==
  LET k == FirstPanic(outs, net)
      n == IF k = 0 THEN Len(outs) ELSE k
  IN [i \in 1..n |-> sendData(outs[i].to, outs[i].data, net[i])]

Panicked(log) == \E i \in 1..Len(log) : log[i].result = "panic"

\* append(commandToBytes(cmd), payload...)
Message(command, payload) == commandToBytes(command) \o gobEncode(payload)

\* (mutant) the version announces the address it is sent to.
sendVersionOfPeer(address, blocks, self) ==
  [to |-> address,
   data |-> Message(cmdVersion, [Version |-> nodeVersion,
                                 BestHeight |-> GetBestHeight(blocks),
                                 AddrFrom |-> address])]

\* The message each send function builds, and whom it is for.
sendVersion(address, blocks, self) ==
  [to |-> address,
   data |-> Message(cmdVersion, [Version |-> nodeVersion,
                                 BestHeight |-> GetBestHeight(blocks),
                                 AddrFrom |-> self])]

sendTx(address, tx, self) ==
  [to |-> address,
   data |-> Message(cmdTx, [AddrFrom |-> self, Transaction |-> Serialize(tx)])]

sendAddr(address, nodes) ==
  [to |-> address, data |-> Message(cmdAddr, [AddrList |-> nodes])]

sendGetAddr(address, self) ==
  [to |-> address, data |-> Message(cmdGetAddr, [AddrFrom |-> self])]

sendPing(address, nonce) ==
  [to |-> address, data |-> Message(cmdPing, [Nonce |-> nonce])]

sendPong(address, nonce) ==
  [to |-> address, data |-> Message(cmdPong, [Nonce |-> nonce])]

\* sendGetBlocks and sendInv are called by main.go and defined elsewhere;
\* their payloads are the spec's: getblocks {addrFrom}, inv {addrFrom, type, items}.
sendGetBlocks(address, self) ==
  [to |-> address, data |-> Message(cmdGetBlocks, [AddrFrom |-> self])]

sendInv(address, kind, items, self) ==
  [to |-> address,
   data |-> Message(cmdInv, [AddrFrom |-> self, Type |-> kind, Items |-> items])]

---------------------------------------------------------------------------
(* Handlers.  Each takes the request as handleConnection passes it and     *)
(* decodes request[commandLength:]; a failed decode reaches log.Panic.     *)

Panic(why) == proc' = "panic" /\ cause' = why
Alive == UNCHANGED <<proc, cause>>

\* A failed gobDecode: the handler stops before it has done anything.
DecodePanic ==
  /\ Panic("decode")
  /\ sent' = <<>>
  /\ UNCHANGED <<knownNodes, Blocks, Mempool>>

\* (mutant) the membership test looks at the last known node only.
nodeIsKnownLast(nodes, address) == nodes[Len(nodes)] = address

nodeIsKnown(nodes, address) == \E i \in 1..Len(nodes) : nodes[i] = address

\* (mutant) an unknown address is put in front of the list.
addIfUnknownFront(nodes, address) ==
  IF nodeIsKnown(nodes, address) THEN nodes ELSE <<address>> \o nodes

\* if !nodeIsKnown(address) { knownNodes = append(knownNodes, address) }
addIfUnknown(nodes, address) ==
  IF nodeIsKnown(nodes, address) THEN nodes ELSE Append(nodes, address)

\* handleAddr's loop over the list, in order.
RECURSIVE mergeAddrList(_, _)
mergeAddrList(nodes, list) ==
  IF list = <<>> THEN nodes
  ELSE mergeAddrList(addIfUnknown(nodes, Head(list)), Tail(list))

\* The sends handleVersion makes for a decoded payload, in order.
versionSends(payload) ==
  (IF payload.Version < nodeVersion
   THEN <<sendVersion(payload.AddrFrom, Blocks, nodeAddress)>> ELSE <<>>)
  \o (IF payload.BestHeight > GetBestHeight(Blocks)
      THEN <<sendGetBlocks(payload.AddrFrom, nodeAddress)>> ELSE <<>>)

handleVersion(request) ==
  LET d == gobDecode(Drop(request, commandLength), ZeroVersion)
      outs == versionSends(d.value)
  IN IF d.err THEN DecodePanic
     ELSE \E net \in [1..Len(outs) -> Outcomes] :
            /\ sent' = Transmit(outs, net)
            /\ IF Panicked(sent')
               THEN Panic("write") /\ UNCHANGED knownNodes
               ELSE Alive /\ knownNodes' = addIfUnknown(knownNodes, d.value.AddrFrom)
            /\ UNCHANGED <<Blocks, Mempool>>

\* The bootstrap node's gossip: an inv to each known node that is neither
\* this node nor the sender, in the list's order.
RECURSIVE txGossip(_, _, _, _)
txGossip(nodes, self, peerAddress, tx) ==
  IF nodes = <<>> THEN <<>>
  ELSE (IF Head(nodes) # self /\ Head(nodes) # peerAddress
        THEN <<sendInv(Head(nodes), "tx", <<tx.ID>>, self)>> ELSE <<>>)
       \o txGossip(Tail(nodes), self, peerAddress, tx)

\* (mutant) the trigger forgets the parity test and fires from one transaction.
mineTriggerAtOne(mempool) == Len(mempool) >= 1

\* if len(bc.Mempool) >= 2 && len(bc.Mempool)%2 == 0
mineTrigger(mempool) == Len(mempool) >= 2 /\ Len(mempool) % 2 = 0

handleTx(request) ==
  LET d == gobDecode(Drop(request, commandLength), ZeroTx)
      tx == DeserializeTransaction(d.value.Transaction)
      pool == AddTxToMempool(Mempool, tx)
  IN IF d.err THEN DecodePanic
     ELSE IF nodeAddress = knownNodes[1]
     THEN LET outs == txGossip(knownNodes, nodeAddress, d.value.AddrFrom, tx)
          IN \E net \in [1..Len(outs) -> Outcomes] :
               /\ sent' = Transmit(outs, net)
               /\ IF Panicked(sent') THEN Panic("write") ELSE Alive
               /\ Mempool' = pool
               /\ UNCHANGED <<knownNodes, Blocks>>
     ELSE /\ sent' = <<>>
          /\ Alive
          /\ UNCHANGED knownNodes
          /\ IF mineTrigger(pool)
             THEN /\ Len(Blocks) < MaxHeight
                  /\ Blocks' = MineBlock(Blocks, pool).Blocks
                  /\ Mempool' = MineBlock(Blocks, pool).Mempool
             ELSE /\ Mempool' = pool
                  /\ UNCHANGED Blocks

handleAddr(request) ==
  LET d == gobDecode(Drop(request, commandLength), ZeroAddr)
  IN IF d.err THEN DecodePanic
     ELSE /\ knownNodes' = mergeAddrList(knownNodes, d.value.AddrList)
          /\ sent' = <<>>
          /\ Alive
          /\ UNCHANGED <<Blocks, Mempool>>

\* A handler whose only act is one send.
replyWith(out) ==
  \E net \in [1..1 -> Outcomes] :
    /\ sent' = Transmit(<<out>>, net)
    /\ IF Panicked(sent') THEN Panic("write") ELSE Alive
    /\ UNCHANGED <<knownNodes, Blocks, Mempool>>

handleGetAddr(request) ==
  LET d == gobDecode(Drop(request, commandLength), ZeroGetAddr)
  IN IF d.err THEN DecodePanic
     ELSE replyWith(sendAddr(d.value.AddrFrom, knownNodes))

\* Ping has the one field Nonce: payload.AddrFrom is what the decoder left.
handlePing(request) ==
  LET d == gobDecode(Drop(request, commandLength), ZeroPing)
  IN IF d.err THEN DecodePanic
     ELSE replyWith(sendPong(d.value.AddrFrom, d.value.Nonce))

handlePong(request) ==
  LET d == gobDecode(Drop(request, commandLength), ZeroPong)
  IN IF d.err THEN DecodePanic
     ELSE /\ sent' = <<>>
          /\ Alive
          /\ UNCHANGED <<knownNodes, Blocks, Mempool>>

---------------------------------------------------------------------------
(* Handlers main.go dispatches to and does not define (spec.md 4.3) *)

ZeroGetBlocks == [AddrFrom |-> NoAddr]
ZeroInv       == [AddrFrom |-> NoAddr, Type |-> "", Items |-> <<>>]
ZeroGetData   == [AddrFrom |-> NoAddr, Type |-> "", ID |-> <<>>]
ZeroBlock     == [AddrFrom |-> NoAddr, Block |-> <<>>]

sendGetData(address, kind, id, self) ==
  [to |-> address,
   data |-> Message(cmdGetData, [AddrFrom |-> self, Type |-> kind, ID |-> id])]

sendBlock(address, block, self) ==
  [to |-> address,
   data |-> Message(cmdBlock, [AddrFrom |-> self, Block |-> <<block>>])]

\* "Every adjacency invariant holds across the candidate chain": each block
\* after the first names the hash of the block before it.
ValidChain(blocks) ==
  \A i \in 2..Len(blocks) : blocks[i].previousHash = blocks[i - 1].selfHash

\* (mutant) any strictly longer chain replaces the local one.
MergeChainUnchecked(blocks, remoteBlocks) ==
  IF Len(remoteBlocks) > Len(blocks) THEN remoteBlocks ELSE blocks

\* MergeChain: the strictly longer valid chain replaces the local one.
MergeChain(blocks, remoteBlocks) ==
  IF Len(remoteBlocks) > Len(blocks) /\ ValidChain(remoteBlocks)
  THEN remoteBlocks ELSE blocks

BlockHashes(blocks) == [i \in 1..Len(blocks) |-> blocks[i].selfHash]

\* Whether the node holds the item an inv or getdata names.
Held(kind, id) ==
  \/ kind = "block" /\ \E i \in 1..Len(Blocks) : Blocks[i].selfHash = id
  \/ kind = "tx" /\ \E i \in 1..Len(Mempool) : Mempool[i].ID = id

handleGetBlocks(request) ==
  LET d == gobDecode(Drop(request, commandLength), ZeroGetBlocks)
  IN IF d.err THEN DecodePanic
     ELSE replyWith(sendInv(d.value.AddrFrom, "block", BlockHashes(Blocks),
                            nodeAddress))

\* A getdata to the sender for each listed item the node does not hold.
RECURSIVE invRequests(_, _, _)
invRequests(peerAddress, kind, items) ==
  IF items = <<>> THEN <<>>
  ELSE (IF Held(kind, Head(items)) THEN <<>>
        ELSE <<sendGetData(peerAddress, kind, Head(items), nodeAddress)>>)
       \o invRequests(peerAddress, kind, Tail(items))

handleInv(request) ==
  LET d == gobDecode(Drop(request, commandLength), ZeroInv)
      outs == invRequests(d.value.AddrFrom, d.value.Type, d.value.Items)
  IN IF d.err THEN DecodePanic
     ELSE \E net \in [1..Len(outs) -> Outcomes] :
            /\ sent' = Transmit(outs, net)
            /\ IF Panicked(sent') THEN Panic("write") ELSE Alive
            /\ UNCHANGED <<knownNodes, Blocks, Mempool>>

\* (mutant) an item the node does not hold is answered with an empty tx.
getDataReplyAlways(payload) ==
  IF ~Held(payload.Type, payload.ID)
  THEN <<sendTx(payload.AddrFrom, [ID |-> <<>>], nodeAddress)>>
  ELSE IF payload.Type = "block"
  THEN <<sendBlock(payload.AddrFrom,
                   Blocks[CHOOSE i \in 1..Len(Blocks) : Blocks[i].selfHash = payload.ID],
                   nodeAddress)>>
  ELSE <<sendTx(payload.AddrFrom, [ID |-> payload.ID], nodeAddress)>>

\* The block or tx message that answers a getdata, if the item is held.
getDataReply(payload) ==
  IF ~Held(payload.Type, payload.ID) THEN <<>>
  ELSE IF payload.Type = "block"
  THEN <<sendBlock(payload.AddrFrom,
                   Blocks[CHOOSE i \in 1..Len(Blocks) : Blocks[i].selfHash = payload.ID],
                   nodeAddress)>>
  ELSE <<sendTx(payload.AddrFrom, [ID |-> payload.ID], nodeAddress)>>

handleGetData(request) ==
  LET d == gobDecode(Drop(request, commandLength), ZeroGetData)
      outs == getDataReply(d.value)
  IN IF d.err THEN DecodePanic
     ELSE \E net \in [1..Len(outs) -> Outcomes] :
            /\ sent' = Transmit(outs, net)
            /\ IF Panicked(sent') THEN Panic("write") ELSE Alive
            /\ UNCHANGED <<knownNodes, Blocks, Mempool>>

\* A received block is tried as the local chain extended by it.
handleBlock(request) ==
  LET d == gobDecode(Drop(request, commandLength), ZeroBlock)
  IN IF d.err THEN DecodePanic
     ELSE /\ Blocks' = MergeChain(Blocks, Blocks \o d.value.Block)
          /\ sent' = <<>>
          /\ Alive
          /\ UNCHANGED <<knownNodes, Mempool>>

---------------------------------------------------------------------------
(* The node's life *)

NoOp == [handler |-> "none", remote |-> NoAddr, wire |-> <<>>, request |-> <<>>]

\* No name in the codec, no goroutine, no peer.
NoCodec == [state |-> "idle", name |-> <<>>, data |-> <<>>, command |-> <<>>]
NoRoutines == <<>>
NoExchange == [state |-> "none"]

Init ==
  /\ nodeAddress = NoAddr
  /\ knownNodes = BootstrapNodes
  /\ Blocks = <<>>
  /\ Mempool = <<>>
  /\ proc = "off"
  /\ cause = ""
  /\ sent = <<>>
  /\ last = NoOp
  /\ codec = NoCodec
  /\ routines = NoRoutines
  /\ exchange = NoExchange

\* The addresses a node of the model is started with: the bootstrap address
\* and one other.
NodeAddrs == {"localhost:3000", "localhost:3001"}

\* StartNode up to its accept loop: a failed Listen panics; a node that is
\* not knownNodes[0] sends its version there first.
StartNode(address) ==
  /\ proc = "off"
  /\ nodeAddress' = address
  /\ last' = [NoOp EXCEPT !.handler = "start"]
  /\ UNCHANGED <<knownNodes, Mempool, others>>
  /\ \/ /\ Panic("listen")
        /\ sent' = <<>>
        /\ UNCHANGED Blocks
     \/ /\ Blocks' = NewBlockchain
        /\ IF address # knownNodes[1]
           THEN \E net \in [1..1 -> Outcomes] :
                  /\ sent' = Transmit(<<sendVersion(knownNodes[1], NewBlockchain, address)>>, net)
                  /\ IF Panicked(sent')
                     THEN Panic("write")
                     ELSE proc' = "serving" /\ cause' = ""
           ELSE sent' = <<>> /\ proc' = "serving" /\ cause' = ""

\* The requests peers send: each send function's message, for every payload
\* of the model's bounds, and for each command a request with no payload and
\* one whose payload is another struct.
Malformed(command) == {commandToBytes(command), Message(command, [Junk |-> 0])}

VersionRequests ==
  {Message(cmdVersion, [Version |-> v, BestHeight |-> h, AddrFrom |-> a]) :
     v \in 0..MaxPeerVersion, h \in 0..(MaxHeight + 1), a \in Addrs}

TxRequests == {sendTx(NoAddr, tx, a).data : tx \in Transactions, a \in Addrs}

AddrLists == UNION {[1..n -> Addrs] : n \in 0..MaxAddrList}
AddrRequests == {sendAddr(NoAddr, list).data : list \in AddrLists}

GetAddrRequests == {sendGetAddr(NoAddr, a).data : a \in Addrs}
PingRequests == {sendPing(NoAddr, n).data : n \in 0..MaxNonce}
PongRequests == {sendPong(NoAddr, n).data : n \in 0..MaxNonce}

\* The node is between two operations.
Idle == proc = "serving" /\ last.handler = "none"

\* One handler run to its end on a request; remote is the sending node
\* where the request itself does not name it.
Served(name, remote, wire, request) ==
  /\ Idle
  /\ last' = [handler |-> name, remote |-> remote, wire |-> wire, request |-> request]
  /\ UNCHANGED <<nodeAddress, others>>

OnVersion ==
  \E request \in VersionRequests \cup Malformed(cmdVersion) :
    Served("version", NoAddr, request, request) /\ handleVersion(request)

OnTx ==
  \E request \in TxRequests \cup Malformed(cmdTx) :
    Served("tx", NoAddr, request, request) /\ handleTx(request)

OnAddr ==
  \E request \in AddrRequests \cup Malformed(cmdAddr) :
    Served("addr", NoAddr, request, request) /\ handleAddr(request)

OnGetAddr ==
  \E request \in GetAddrRequests \cup Malformed(cmdGetAddr) :
    Served("getaddr", NoAddr, request, request) /\ handleGetAddr(request)

OnPing ==
  \E remote \in Addrs, request \in PingRequests \cup Malformed(cmdPing) :
    Served("ping", remote, request, request) /\ handlePing(request)

OnPong ==
  \E remote \in Addrs, request \in PongRequests \cup Malformed(cmdPong) :
    Served("pong", remote, request, request) /\ handlePong(request)

\* The operation is over (StartNode reaches its loop, a handler returns and
\* its connection closes): the request and the record of its sends are gone.
Return ==
  /\ proc = "serving"
  /\ last.handler # "none"
  /\ last' = NoOp
  /\ sent' = <<>>
  /\ UNCHANGED <<nodeAddress, knownNodes, Blocks, Mempool, proc, cause, others>>

Next ==
  \/ \E address \in NodeAddrs : StartNode(address)
  \/ OnVersion
  \/ OnTx
  \/ OnAddr
  \/ OnGetAddr
  \/ OnPing
  \/ OnPong
  \/ Return

Spec == Init /\ [][Next]_vars

---------------------------------------------------------------------------
(* The node as StartNode wires it: the accept loop and handleConnection *)

\* A hash no block of the node has.
UnknownHash == Hash(<<[ID |-> TxId(1)]>>, 0, GenesisPreviousHash)
SomeHashes == {NewBlockchain[1].selfHash, UnknownHash}

GetBlocksRequests == {sendGetBlocks(NoAddr, a).data : a \in Addrs}
InvRequests ==
  {sendInv(NoAddr, "tx", <<tx.ID>>, a).data : tx \in Transactions, a \in Addrs}
  \cup {sendInv(NoAddr, "block", <<h>>, a).data : h \in SomeHashes, a \in Addrs}
GetDataRequests ==
  {sendGetData(NoAddr, "tx", tx.ID, a).data : tx \in Transactions, a \in Addrs}
  \cup {sendGetData(NoAddr, "block", h, a).data : h \in SomeHashes, a \in Addrs}
BlockRequests ==
  {sendBlock(NoAddr, NewBlock(<<tx>>, 1, h), a).data :
     tx \in Transactions, h \in SomeHashes, a \in Addrs}

\* A command name no handler answers to ("foo").
cmdFoo == <<102, 111, 111>>

\* What a peer can write on a connection before it closes it: nothing, a
\* message of a send function, a known command with a bad payload or none,
\* an unknown command, a field of zeros, a single byte.
Wires ==
  {<<>>, <<102>>, commandToBytes(<<>>), commandToBytes(cmdFoo),
   Message(cmdFoo, [Junk |-> 0])}
  \cup VersionRequests \cup TxRequests \cup AddrRequests \cup GetAddrRequests
  \cup PingRequests \cup PongRequests \cup GetBlocksRequests \cup InvRequests
  \cup GetDataRequests \cup BlockRequests
  \cup Malformed(cmdVersion) \cup Malformed(cmdTx) \cup Malformed(cmdBlock)

\* request := make([]byte, commandLength); conn.Read(request) copies the n
\* bytes it got over the zeros.
ReadInto(wire, n) ==
  [i \in 1..commandLength |-> IF i <= n /\ i <= Len(wire) THEN wire[i] ELSE 0]

\* The name of the handler the switch picks for a command.
HandlerName(command) ==
  CASE command = cmdVersion -> "version"
    [] command = cmdGetBlocks -> "getblocks"
    [] command = cmdInv -> "inv"
    [] command = cmdGetData -> "getdata"
    [] command = cmdBlock -> "block"
    [] command = cmdTx -> "tx"
    [] command = cmdAddr -> "addr"
    [] command = cmdGetAddr -> "getaddr"
    [] command = cmdPing -> "ping"
    [] command = cmdPong -> "pong"
    [] OTHER -> "unknown"

KnownCommands ==
  {cmdVersion, cmdGetBlocks, cmdInv, cmdGetData, cmdBlock, cmdTx, cmdAddr,
   cmdGetAddr, cmdPing, cmdPong}

\* (mutant) an unknown command is treated as an error of the process.
unknownCommandPanics ==
  /\ sent' = <<>>
  /\ Panic("unknown")
  /\ UNCHANGED <<knownNodes, Blocks, Mempool>>

\* default: fmt.Println("Unknown command") and nothing else.
unknownCommand ==
  /\ sent' = <<>>
  /\ Alive
  /\ UNCHANGED <<knownNodes, Blocks, Mempool>>

\* The switch of handleConnection: the handler of the command runs on the
\* request buffer.
dispatch(command, request) ==
  CASE command = cmdVersion -> handleVersion(request)
    [] command = cmdGetBlocks -> handleGetBlocks(request)
    [] command = cmdInv -> handleInv(request)
    [] command = cmdGetData -> handleGetData(request)
    [] command = cmdBlock -> handleBlock(request)
    [] command = cmdTx -> handleTx(request)
    [] command = cmdAddr -> handleAddr(request)
    [] command = cmdGetAddr -> handleGetAddr(request)
    [] command = cmdPing -> handlePing(request)
    [] command = cmdPong -> handlePong(request)
    [] OTHER -> unknownCommand

\* handleConnection on a connection whose peer wrote wire, its one Read
\* returning n bytes, or an error (nothing to read, or readFails).
handleConnection(remote, wire, n, readFails) ==
  LET request == ReadInto(wire, n)
      command == bytesToCommand(request)
  IN /\ Idle
     /\ UNCHANGED <<nodeAddress, others>>
     /\ IF wire = <<>> \/ readFails
        THEN /\ last' = [handler |-> "read", remote |-> remote, wire |-> wire,
                         request |-> ReadInto(wire, 0)]
             /\ Panic("read")
             /\ sent' = <<>>
             /\ UNCHANGED <<knownNodes, Blocks, Mempool>>
        ELSE /\ last' = [handler |-> HandlerName(command), remote |-> remote,
                         wire |-> wire, request |-> request]
             /\ dispatch(command, request)

\* The accept loop takes a connection and handles it.
Serve ==
  \E remote \in Addrs, wire \in Wires, readFails \in BOOLEAN :
    \E n \in 1..Min(commandLength, IF wire = <<>> THEN 1 ELSE Len(wire)) :
      handleConnection(remote, wire, n, readFails)

\* ln.Accept() returns an error: log.Panic.
AcceptFails ==
  /\ Idle
  /\ Panic("accept")
  /\ last' = [NoOp EXCEPT !.handler = "accept"]
  /\ sent' = <<>>
  /\ UNCHANGED <<nodeAddress, knownNodes, Blocks, Mempool, others>>

NodeNext ==
  \/ \E address \in NodeAddrs : StartNode(address)
  \/ Serve
  \/ AcceptFails
  \/ Return

NodeSpec == Init /\ [][NodeNext]_vars

---------------------------------------------------------------------------
(* Properties *)

\* The payload of the request in progress, decoded as the handler does.
LastPayload(zero) == gobDecode(Drop(last.request, commandLength), zero)

\* The command of a message.
CommandOf(data) == bytesToCommand(Take(data, commandLength))

\* How often the operation in progress called sendData for address a.
SendsTo(a) == Cardinality({i \in 1..Len(sent) : sent[i].to = a})

Count(seq, x) == Cardinality({i \in 1..Len(seq) : seq[i] = x})

\* The bootstrap node has handled a well-formed tx message.
BootstrapHandledTx ==
  /\ last.handler = "tx"
  /\ ~LastPayload(ZeroTx).err
  /\ nodeAddress = knownNodes[1]

\* What C1 says of the state after it: the transaction is in the mempool, no
\* block was mined, and sendData was called once with the tx's inv for each
\* known address other than the node's and the sender's, and for no other.
GossipedToAll ==
  LET payload == LastPayload(ZeroTx).value
      tx == DeserializeTransaction(payload.Transaction)
  IN /\ InMempool(Mempool, tx)
     /\ Blocks = NewBlockchain
     /\ \A a \in Addrs \cup {NoAddr} :
          SendsTo(a) = IF /\ nodeIsKnown(knownNodes, a)
                          /\ a # nodeAddress
                          /\ a # payload.AddrFrom
                       THEN 1 ELSE 0
     /\ \A i \in 1..Len(sent) :
          sent[i].data = sendInv(sent[i].to, "tx", <<tx.ID>>, nodeAddress).data

\* C1: when the bootstrap node handles a tx message it adds the transaction
\* to its mempool, never mines, and sends exactly one inv of type "tx" naming
\* the transaction to every known address other than its own and the
\* sender's, and to no other address.
C1_BootstrapGossipsTx == BootstrapHandledTx => GossipedToAll

\* The same while no write has failed: the loop itself is as C1 says.
GossipUnlessWriteFails ==
  (BootstrapHandledTx /\ ~Panicked(sent)) => GossipedToAll

\* C2: when a non-bootstrap node handles tx messages one after another,
\* MineBlock runs exactly when the mempool's size after the insert is even
\* and at least 2; then the mempool becomes empty and the height grows by
\* exactly 1; otherwise the height is unchanged and no inv (nothing) is sent.
C2_MineOnEvenMempool ==
  [][ LET d == gobDecode(Drop(last'.request, commandLength), ZeroTx)
          n == Len(AddTxToMempool(Mempool, DeserializeTransaction(d.value.Transaction)))
      IN (last'.handler = "tx" /\ ~d.err /\ nodeAddress # knownNodes[1]) =>
           IF n >= 2 /\ n % 2 = 0
           THEN /\ Mempool' = <<>>
                /\ GetBestHeight(Blocks') = GetBestHeight(Blocks) + 1
                /\ sent' = <<>>
           ELSE /\ Len(Mempool') = n
                /\ Blocks' = Blocks
                /\ sent' = <<>> ]_vars

\* A non-bootstrap node has just mined: its second transaction emptied the
\* mempool into a block.
C2_Witness ==
  /\ last.handler = "tx"
  /\ nodeAddress # knownNodes[1]
  /\ Mempool = <<>>
  /\ Len(Blocks) = 2
  /\ Len(Blocks[2].payload) = 2

\* C3: handling a version message sends our version to the peer exactly when
\* the peer's version is lower than ours, sends getblocks to the peer exactly
\* when the peer's best height is greater than the local height, and sends
\* nothing else (so nothing at all when neither holds).
C3_VersionReplies ==
  LET d == LastPayload(ZeroVersion)
      peer == d.value.AddrFrom
      versions == {i \in 1..Len(sent) : CommandOf(sent[i].data) = cmdVersion}
      getblocks == {i \in 1..Len(sent) : CommandOf(sent[i].data) = cmdGetBlocks}
  IN (last.handler = "version" /\ ~d.err) =>
       /\ Cardinality(versions) = IF d.value.Version < nodeVersion THEN 1 ELSE 0
       /\ Cardinality(getblocks) =
            IF d.value.BestHeight > GetBestHeight(Blocks) THEN 1 ELSE 0
       /\ \A i \in 1..Len(sent) : i \in versions \cup getblocks /\ sent[i].to = peer

\* The same while no write has failed.
VersionRepliesUnlessWriteFails ==
  Panicked(sent) \/ C3_VersionReplies

\* C4: after any sequence of version and addr messages handled one at a time
\* the known-peer list holds no address more than once.
C4_NoDuplicatePeers ==
  \A a \in Addrs \cup {NoAddr} : Count(knownNodes, a) <= 1

\* An addr list naming a new address twice was handled, and the address is
\* known once.
C4_Witness ==
  /\ last.handler = "addr"
  /\ ~LastPayload(ZeroAddr).err
  /\ LET list == LastPayload(ZeroAddr).value.AddrList
     IN /\ Len(list) = 2
        /\ list[1] = list[2]
        /\ knownNodes[Len(knownNodes)] = list[1]
        /\ Len(knownNodes) = 3

\* C5: no handler inserts the node's own address into knownNodes: a
\* non-bootstrap node's address is never in it, the bootstrap node's exactly
\* once.
C5_SelfNeverInserted ==
  proc # "off" =>
    Count(knownNodes, nodeAddress) = IF nodeAddress = Bootstrap THEN 1 ELSE 0

C7_PongToSender ==
  /\ (last.handler = "ping" /\ ~LastPayload(ZeroPing).err) =>
       /\ Len(sent) = 1
       /\ sent[1].to = last.remote
       /\ sent[1].data = sendPong(last.remote, LastPayload(ZeroPing).value.Nonce).data
  /\ (last.handler = "pong" /\ ~LastPayload(ZeroPong).err) => sent = <<>>

\* What handlePing does do: one pong with the ping's nonce, to the address
\* its payload holds, which a ping of sendPing leaves empty.
PongToPayloadAddress ==
  (last.handler = "ping" /\ ~LastPayload(ZeroPing).err) =>
    /\ Len(sent) = 1
    /\ sent[1].to = NoAddr
    /\ sent[1].data = sendPong(NoAddr, LastPayload(ZeroPing).value.Nonce).data

\* C8: a connection whose command field decodes to none of the ten commands
\* is dropped: nothing is sent, the ledger, the mempool and the known
\* addresses are unchanged, and the node keeps serving.
C8_UnknownCommandDropped ==
  [][ (/\ last'.handler \notin {"none", "start", "accept", "read"}
       /\ bytesToCommand(last'.request) \notin KnownCommands)
      => /\ sent' = <<>>
         /\ proc' = "serving"
         /\ cause' = ""
         /\ UNCHANGED <<knownNodes, Blocks, Mempool, nodeAddress>> ]_vars

\* A message with the command "foo" was read in full and dropped.
C8_Witness ==
  /\ last.handler = "unknown"
  /\ last.wire = Message(cmdFoo, [Junk |-> 0])
  /\ last.request = commandToBytes(cmdFoo)
  /\ proc = "serving"

\* C9: a per-connection error (a failed read, a payload that fails to decode)
\* ends only that connection: whatever the handling of a connection meets,
\* the process is not ended by it (only a failed Listen may end it).
C9_ConnectionErrorsStayLocal ==
  last.handler \notin {"none", "start", "accept"} => proc = "serving"

\* C10: a send to an unreachable peer, failed dial or failed write, is
\* dropped without crashing the calling handler, which goes on: the bootstrap
\* node's gossip loop reaches every peer after the unreachable one.
C10_SendFailureNeverCrashes ==
  /\ last.handler # "start" => cause # "write"
  /\ BootstrapHandledTx =>
       LET payload == LastPayload(ZeroTx).value
       IN Len(sent) = Len(txGossip(knownNodes, nodeAddress, payload.AddrFrom,
                                   DeserializeTransaction(payload.Transaction)))

\* What holds of a failed dial: the handler lives and goes on.
DialFailureNeverCrashes ==
  (\A i \in 1..Len(sent) : sent[i].result # "panic") => cause # "write"

---------------------------------------------------------------------------
(* The command codec on its own: commandToBytes, then bytesToCommand *)

MaxNameLen == 13      \* command names of up to this many bytes are encoded

\* Command names are text: bytes of ASCII letters, each its own rune.
NameBytes == {97, 122}
Names == KnownCommands \cup UNION {[1..n -> NameBytes] : n \in 0..MaxNameLen}

\* data[i] = byte(c) indexes a [commandLength]byte array: past its end the
\* runtime panics (index out of range).
commandFits(command) == \A i \in 1..Len(command) : i <= commandLength

CodecInit ==
  /\ nodeAddress = NoAddr
  /\ knownNodes = BootstrapNodes
  /\ Blocks = <<>>
  /\ Mempool = <<>>
  /\ proc = "off"
  /\ cause = ""
  /\ sent = <<>>
  /\ last = NoOp
  /\ routines = NoRoutines
  /\ exchange = NoExchange
  /\ \E name \in Names : codec = [NoCodec EXCEPT !.name = name]

\* A sender calls commandToBytes(name).
Encode ==
  /\ codec.state = "idle"
  /\ codec' = IF commandFits(codec.name)
              THEN [codec EXCEPT !.state = "encoded",
                                 !.data = commandToBytes(codec.name)]
              ELSE [codec EXCEPT !.state = "panic"]
  /\ UNCHANGED <<nodeAddress, knownNodes, Blocks, Mempool, proc, cause, sent,
                 last, routines, exchange>>

\* A receiver calls bytesToCommand on the field.
Decode ==
  /\ codec.state = "encoded"
  /\ codec' = [codec EXCEPT !.state = "decoded",
                            !.command = bytesToCommand(codec.data)]
  /\ UNCHANGED <<nodeAddress, knownNodes, Blocks, Mempool, proc, cause, sent,
                 last, routines, exchange>>

CodecNext == Encode \/ Decode

CodecSpec == CodecInit /\ [][CodecNext]_vars

\* C11: a name shorter than the field comes back from bytesToCommand as it
\* went into commandToBytes, the field is always commandLength bytes, and no
\* name, however long, crashes the sender.
C11_CommandRoundTrip ==
  /\ codec.state = "decoded" /\ Len(codec.name) < commandLength
       => codec.command = codec.name
  /\ codec.state \in {"encoded", "decoded"} => Len(codec.data) = commandLength
  /\ codec.state # "panic"

\* What the code does keep: the round trip and the width for every name that
\* fits the field; only a name longer than the field panics.
RoundTripWhereItFits ==
  /\ codec.state = "decoded" => codec.command = codec.name
  /\ codec.state \in {"encoded", "decoded"} => Len(codec.data) = commandLength
  /\ codec.state = "panic" <=> codec.state # "idle" /\ Len(codec.name) > commandLength

---------------------------------------------------------------------------
(* Startup *)

\* What StartNode has sent when it reaches its accept loop (or its write
\* panics): a node that is not the bootstrap node called sendData once, for
\* the bootstrap address, with a version message carrying the node's version,
\* its height and its own address; the bootstrap node called it never.
StartupSends(self, blocks, log) ==
  IF self = Bootstrap THEN log = <<>>
  ELSE /\ Len(log) = 1
       /\ log[1].to = Bootstrap
       /\ CommandOf(log[1].data) = cmdVersion
       /\ gobDecode(Drop(log[1].data, commandLength), ZeroVersion) =
            [err |-> FALSE,
             value |-> [Version |-> nodeVersion, BestHeight |-> Len(blocks),
                        AddrFrom |-> self]]

\* C12: the first step of a node is StartNode, no connection is handled and
\* nothing else is sent before it: a node whose Listen succeeded and whose
\* address is not the bootstrap address has then sent exactly its version
\* (own address, current height) to the bootstrap address, and a node at the
\* bootstrap address has sent nothing.
C12_VersionFirst ==
  [][proc = "off" =>
       /\ last'.handler = "start"
       /\ nodeAddress' \in NodeAddrs
       /\ IF cause' = "listen" THEN sent' = <<>>
          ELSE StartupSends(nodeAddress', Blocks', sent')]_vars

\* A node other than the bootstrap node has started and is at its accept loop.
C12_Witness ==
  /\ last.handler = "start"
  /\ proc = "serving"
  /\ nodeAddress # Bootstrap
  /\ Len(sent) = 1
  /\ sent[1].result = "written"

---------------------------------------------------------------------------
(* Synchronisation: the handlers of getblocks, inv, getdata and block, run *)
(* one at a time on full requests, next to the tx handler that fills the   *)
(* mempool and the chain                                                   *)

OnGetBlocks ==
  \E request \in GetBlocksRequests \cup Malformed(cmdGetBlocks) :
    Served("getblocks", NoAddr, request, request) /\ handleGetBlocks(request)

OnInv ==
  \E request \in InvRequests \cup Malformed(cmdInv) :
    Served("inv", NoAddr, request, request) /\ handleInv(request)

OnGetData ==
  \E request \in GetDataRequests \cup Malformed(cmdGetData) :
    Served("getdata", NoAddr, request, request) /\ handleGetData(request)

OnBlock ==
  \E request \in BlockRequests \cup Malformed(cmdBlock) :
    Served("block", NoAddr, request, request) /\ handleBlock(request)

SyncNext ==
  \/ \E address \in NodeAddrs : StartNode(address)
  \/ OnTx
  \/ OnGetBlocks
  \/ OnInv
  \/ OnGetData
  \/ OnBlock
  \/ Return

SyncSpec == Init /\ [][SyncNext]_vars

\* The node holds the item a getdata payload names: a block of its chain
\* with that hash, or a pending transaction with that id.
HoldsItem(payload) ==
  \/ /\ payload.Type = "block"
     /\ payload.ID \in {Blocks[i].selfHash : i \in 1..Len(Blocks)}
  \/ /\ payload.Type = "tx"
     /\ payload.ID \in {Mempool[i].ID : i \in 1..Len(Mempool)}

\* The one message that answers the payload: to the requester, a block
\* message with the block of that hash or a tx message with that transaction.
AnswersItem(payload, log) ==
  /\ Len(log) = 1
  /\ log[1].to = payload.AddrFrom
  /\ IF payload.Type = "block"
     THEN /\ CommandOf(log[1].data) = cmdBlock
          /\ LET b == gobDecode(Drop(log[1].data, commandLength), ZeroBlock).value.Block
             IN Len(b) = 1 /\ b[1].selfHash = payload.ID
                /\ \E i \in 1..Len(Blocks) : Blocks[i] = b[1]
     ELSE /\ CommandOf(log[1].data) = cmdTx
          /\ gobDecode(Drop(log[1].data, commandLength), ZeroTx).value.Transaction
               = Serialize([ID |-> payload.ID])

\* C13: a getdata for an item the node does not hold sends nothing, ends in
\* no error and changes neither ledger nor peer list, and the handler returns
\* to the deferred Close of its connection (the node is serving); a getdata for an item it holds calls sendData
\* exactly once, with a block or tx message carrying the item, for the
\* requester.
C13_GetDataMissingIgnored ==
  [][(last'.handler = "getdata"
      /\ ~gobDecode(Drop(last'.request, commandLength), ZeroGetData).err)
     => LET payload == gobDecode(Drop(last'.request, commandLength),
                                 ZeroGetData).value
        IN /\ UNCHANGED <<Blocks, Mempool, knownNodes>>
           /\ IF HoldsItem(payload)
              THEN AnswersItem(payload, sent')
              ELSE sent' = <<>> /\ proc' = "serving" /\ cause' = ""]_vars

\* A getdata for a hash the node does not have was handled, and one for a
\* transaction of its mempool.
C13_Witness ==
  /\ last.handler = "getdata"
  /\ ~LastPayload(ZeroGetData).err
  /\ ~HoldsItem(LastPayload(ZeroGetData).value)
  /\ LastPayload(ZeroGetData).value.Type = "block"
  /\ Mempool # <<>>

C13_WitnessHeld ==
  /\ last.handler = "getdata"
  /\ ~LastPayload(ZeroGetData).err
  /\ HoldsItem(LastPayload(ZeroGetData).value)
  /\ LastPayload(ZeroGetData).value.Type = "tx"
  /\ Len(sent) = 1

---------------------------------------------------------------------------
(* The ledger on its own: main's chain (NewBlockchain, then its loop of     *)
(* AddBlock calls), and the ledger's operations called one at a time with   *)
(* arguments of the model's bounds                                          *)

MaxChain == 3         \* the operations stop extending a chain of this length

\* for i := 1; i <= 15; i++
MainBlocks == 15

\* fmt.Sprintf("Transaction %d", i), as the payload of a block.
MainData(i) == <<[ID |-> <<"Transaction", i>>]>>

\* Payloads callers hand to AddBlock: one transaction each.
Payloads == {<<tx>> : tx \in Transactions}

\* The chains peers of the same ledger offer to MergeChain: each starts with
\* the genesis block and goes on with blocks that name the hash of their
\* predecessor or another hash.
RECURSIVE ChainsOfLen(_)
ChainsOfLen(n) ==
  IF n = 1 THEN {NewBlockchain}
  ELSE {Append(c, NewBlock(p, Len(c), h)) :
          c \in ChainsOfLen(n - 1), p \in Payloads,
          h \in {NewBlockchain[1].selfHash, UnknownHash}}
       \cup {AddBlock(c, p) : c \in ChainsOfLen(n - 1), p \in Payloads}

Candidates == UNION {ChainsOfLen(n) : n \in 1..MaxChain}

\* newblockchain := NewBlockchain()
LedgerInit ==
  /\ nodeAddress = NoAddr
  /\ knownNodes = BootstrapNodes
  /\ Blocks = NewBlockchain
  /\ Mempool = <<>>
  /\ proc = "off"
  /\ cause = ""
  /\ sent = <<>>
  /\ last = [NoOp EXCEPT !.handler = "NewBlockchain", !.request = <<0>>]
  /\ codec = NoCodec
  /\ routines = NoRoutines
  /\ exchange = NoExchange

LedgerOnly == UNCHANGED <<nodeAddress, knownNodes, proc, cause, sent, others>>

\* One iteration of main's loop: last.request holds i.
mainAddBlock ==
  LET i == last.request[1] + 1
  IN /\ last.handler \in {"NewBlockchain", "main"}
     /\ i <= MainBlocks
     /\ Blocks' = AddBlock(Blocks, MainData(i))
     /\ last' = [last EXCEPT !.handler = "main", !.request = <<i>>]
     /\ UNCHANGED Mempool
     /\ LedgerOnly

\* The ledger is between two calls.
LedgerIdle == last.handler = "none"

CallAddBlock ==
  \E payload \in Payloads :
    /\ LedgerIdle
    /\ Len(Blocks) < MaxChain
    /\ Blocks' = AddBlock(Blocks, payload)
    /\ last' = [NoOp EXCEPT !.handler = "AddBlock", !.request = payload]
    /\ UNCHANGED Mempool
    /\ LedgerOnly

CallAddTransaction ==
  \E tx \in Transactions :
    /\ LedgerIdle
    /\ Mempool' = AddTxToMempool(Mempool, tx)
    /\ last' = [NoOp EXCEPT !.handler = "AddTransaction", !.request = <<tx>>]
    /\ UNCHANGED Blocks
    /\ LedgerOnly

CallMergeChain ==
  \E remoteBlocks \in Candidates :
    /\ LedgerIdle
    /\ Blocks' = MergeChain(Blocks, remoteBlocks)
    /\ last' = [NoOp EXCEPT !.handler = "MergeChain", !.request = remoteBlocks]
    /\ UNCHANGED Mempool
    /\ LedgerOnly

\* The call returns to its caller.
CallReturns ==
  /\ last.handler \in {"NewBlockchain", "AddBlock", "AddTransaction", "MergeChain"}
  /\ last' = NoOp
  /\ UNCHANGED <<Blocks, Mempool>>
  /\ LedgerOnly

LedgerNext ==
  \/ mainAddBlock
  \/ CallAddBlock
  \/ CallAddTransaction
  \/ CallMergeChain
  \/ CallReturns

LedgerSpec == LedgerInit /\ [][LedgerNext]_vars

\* The first block is the genesis block, whose previousHash is the sentinel,
\* and every later block names the hash of the block before it.
GenesisAndLinkage ==
  /\ Len(Blocks) >= 1
  /\ Blocks[1] = NewBlockchain[1]
  /\ Blocks[1].previousHash = GenesisPreviousHash
  /\ \A i \in 1..Len(Blocks) :
       i > 1 => Blocks[i].previousHash = Blocks[i - 1].selfHash

PairsLinked(c) ==
  ~\E i \in 1..(Len(c) - 1) : c[i + 1].previousHash # c[i].selfHash

\* C15: a MergeChain call replaces the chain with the candidate exactly when
\* the candidate is strictly longer and each adjacent pair of its blocks is
\* hash-linked; any other call leaves the chain as it was, and so would the
\* same call made again; the mempool is never touched.
C15_MergeLongerValid ==
  [][last'.handler = "MergeChain"
     => LET c == last'.request
        IN /\ Mempool' = Mempool
           /\ IF Len(c) > Len(Blocks) /\ PairsLinked(c)
              THEN Blocks' = c
              ELSE Blocks' = Blocks /\ MergeChain(Blocks', c) = Blocks']_vars

\* A longer linked candidate has replaced the chain of a ledger with a
\* pending transaction.
C15_Witness ==
  /\ last.handler = "MergeChain"
  /\ Blocks = last.request
  /\ Len(Blocks) = MaxChain
  /\ Mempool # <<>>

\* A longer candidate with a broken link was offered, and the chain kept.
C15_WitnessRejected ==
  /\ last.handler = "MergeChain"
  /\ Len(last.request) > Len(Blocks)
  /\ ~PairsLinked(last.request)
  /\ Len(Blocks) = 2

---------------------------------------------------------------------------
(* Concurrent handlers.  StartNode's loop starts handleConnection in a     *)
(* goroutine of its own for every connection, and no handler, and (per     *)
(* spec.md 5) no ledger operation, takes a lock: the goroutines share      *)
(* knownNodes, bc.Blocks and bc.Mempool, and each read and each write of   *)
(* them is a step of its own.  A handler is given its decoded payload.     *)

MaxConns == 3         \* connections the node accepts

\* The peers whose addresses the version and addr messages carry.
ConcPeers == {"localhost:3002", "localhost:3003"}

NoTx == [ID |-> <<>>]

\* A goroutine: its handler, the payload's transaction, sender and the
\* addresses still to be looked at, its position, the value it last read
\* from the shared state, and the addresses it has appended.
Routine(handler, tx, from, list) ==
  [handler |-> handler, tx |-> tx, from |-> from, list |-> list,
   pc |-> IF handler = "tx" THEN "AddTxToMempool" ELSE "nodeIsKnown",
   tmp |-> <<>>, added |-> {}]

ConcRequests ==
  {Routine("tx", tx, "localhost:3003", <<>>) : tx \in Transactions}
  \cup {Routine("version", NoTx, a, <<a>>) : a \in ConcPeers}
  \cup {Routine("addr", NoTx, NoAddr, list) :
          list \in UNION {[1..n -> ConcPeers] : n \in 1..MaxAddrList}}

\* The node is at its accept loop.
ConcInit ==
  /\ nodeAddress \in NodeAddrs
  /\ knownNodes = BootstrapNodes
  /\ Blocks = NewBlockchain
  /\ Mempool = <<>>
  /\ proc = "serving"
  /\ cause = ""
  /\ sent = <<>>
  /\ last = NoOp
  /\ codec = NoCodec
  /\ exchange = NoExchange
  /\ routines = NoRoutines

Running(i, pc) == proc = "serving" /\ routines[i].pc = pc

Becomes(i, r) == routines' = [routines EXCEPT ![i] = r]

ConcOnly == UNCHANGED <<nodeAddress, sent, last, codec, exchange>>

\* go handleConnection(conn, bc)
goHandleConnection ==
  \E r \in ConcRequests :
    /\ proc = "serving"
    /\ Len(routines) < MaxConns
    /\ routines' = Append(routines, r)
    /\ UNCHANGED <<knownNodes, Blocks, Mempool, proc, cause>>
    /\ ConcOnly

\* if !nodeIsKnown(address): the test reads knownNodes; a known address is
\* passed over (handleAddr goes on with the next one).
TestKnown ==
  \E i \in 1..Len(routines) :
    LET r == routines[i]
        rest == Tail(r.list)
    IN /\ Running(i, "nodeIsKnown")
       /\ Becomes(i, IF ~nodeIsKnown(knownNodes, Head(r.list))
                     THEN [r EXCEPT !.pc = "append"]
                     ELSE [r EXCEPT !.list = rest,
                                    !.pc = IF rest = <<>> THEN "done" ELSE "nodeIsKnown"])
       /\ UNCHANGED <<knownNodes, Blocks, Mempool, proc, cause>>
       /\ ConcOnly

\* knownNodes = append(knownNodes, address): append reads the slice ...
AppendReads ==
  \E i \in 1..Len(routines) :
    /\ Running(i, "append")
    /\ Becomes(i, [routines[i] EXCEPT !.tmp = knownNodes, !.pc = "store"])
    /\ UNCHANGED <<knownNodes, Blocks, Mempool, proc, cause>>
    /\ ConcOnly

\* ... and the result is stored in knownNodes.
AppendStores ==
  \E i \in 1..Len(routines) :
    LET r == routines[i]
        rest == Tail(r.list)
    IN /\ Running(i, "store")
       /\ knownNodes' = Append(r.tmp, Head(r.list))
       /\ Becomes(i, [r EXCEPT !.tmp = <<>>, !.list = rest,
                               !.added = r.added \cup {Head(r.list)},
                               !.pc = IF rest = <<>> THEN "done" ELSE "nodeIsKnown"])
       /\ UNCHANGED <<Blocks, Mempool, proc, cause>>
       /\ ConcOnly

\* bc.AddTxToMempool(tx) reads the mempool ...
AddTxReads ==
  \E i \in 1..Len(routines) :
    /\ Running(i, "AddTxToMempool")
    /\ Becomes(i, [routines[i] EXCEPT !.tmp = Mempool, !.pc = "insert"])
    /\ UNCHANGED <<knownNodes, Blocks, Mempool, proc, cause>>
    /\ ConcOnly

\* ... and stores it with the transaction added, unless its id was there;
\* then handleTx takes the bootstrap node's branch or the other.
AddTxStores ==
  \E i \in 1..Len(routines) :
    LET r == routines[i]
    IN /\ Running(i, "insert")
       /\ IF InMempool(r.tmp, r.tx)
          THEN UNCHANGED Mempool
          ELSE Mempool' = AddTxToMempool(r.tmp, r.tx)
       /\ Becomes(i, [r EXCEPT !.tmp = <<>>,
                               !.pc = IF nodeAddress = knownNodes[1]
                                      THEN "sendInv" ELSE "trigger"])
       /\ UNCHANGED <<knownNodes, Blocks, proc, cause>>
       /\ ConcOnly

\* The bootstrap node's loop over knownNodes: every sendData call returns, or
\* one of them meets a failed write and panics.
Gossip ==
  \E i \in 1..Len(routines) :
    LET r == routines[i]
        outs == txGossip(knownNodes, nodeAddress, r.from, r.tx)
    IN /\ Running(i, "sendInv")
       /\ \E net \in [1..Len(outs) -> Outcomes] :
            IF Panicked(Transmit(outs, net))
            THEN Panic("write") /\ UNCHANGED routines
            ELSE Alive /\ Becomes(i, [r EXCEPT !.pc = "done"])
       /\ UNCHANGED <<knownNodes, Blocks, Mempool>>
       /\ ConcOnly

\* if len(bc.Mempool) >= 2 && len(bc.Mempool)%2 == 0
Trigger ==
  \E i \in 1..Len(routines) :
    /\ Running(i, "trigger")
    /\ Becomes(i, [routines[i] EXCEPT
                     !.pc = IF mineTrigger(Mempool) THEN "MineBlock" ELSE "done"])
    /\ UNCHANGED <<knownNodes, Blocks, Mempool, proc, cause>>
    /\ ConcOnly

\* bc.MineBlock() takes the mempool's transactions as the payload ...
MineReads ==
  \E i \in 1..Len(routines) :
    /\ Running(i, "MineBlock")
    /\ Becomes(i, [routines[i] EXCEPT !.tmp = Mempool, !.pc = "AddBlock"])
    /\ UNCHANGED <<knownNodes, Blocks, Mempool, proc, cause>>
    /\ ConcOnly

\* ... calls AddBlock on it ...
MineAdds ==
  \E i \in 1..Len(routines) :
    /\ Running(i, "AddBlock")
    /\ Blocks' = AddBlock(Blocks, routines[i].tmp)
    /\ Becomes(i, [routines[i] EXCEPT !.pc = "clear"])
    /\ UNCHANGED <<knownNodes, Mempool, proc, cause>>
    /\ ConcOnly

\* ... and clears the folded transactions from the mempool.
MineClears ==
  \E i \in 1..Len(routines) :
    LET r == routines[i]
    IN /\ Running(i, "clear")
       /\ Mempool' = SelectSeq(Mempool, LAMBDA tx : ~InMempool(r.tmp, tx))
       /\ Becomes(i, [r EXCEPT !.tmp = <<>>, !.pc = "done"])
       /\ UNCHANGED <<knownNodes, Blocks, proc, cause>>
       /\ ConcOnly

HandlerSteps ==
  \/ TestKnown
  \/ AppendReads
  \/ AppendStores
  \/ AddTxReads
  \/ AddTxStores
  \/ Gossip
  \/ Trigger
  \/ MineReads
  \/ MineAdds
  \/ MineClears

ConcNext == goHandleConnection \/ HandlerSteps

ConcSpec == ConcInit /\ [][ConcNext]_vars

\* The same handlers, each run to its end before the next connection is
\* accepted.
AllReturned == \A i \in 1..Len(routines) : routines[i].pc = "done"

OneAtATimeNext == (AllReturned /\ goHandleConnection) \/ HandlerSteps

OneAtATimeSpec == ConcInit /\ [][OneAtATimeNext]_vars

\* In how many blocks the transaction is, and whether it is pending.
BlocksHolding(tx) == {k \in 1..Len(Blocks) : InMempool(Blocks[k].payload, tx)}

\* C16: once every handler has returned, each transaction a tx handler was
\* given is in the mempool or in a block, and in no more than one block.
C16_NoLostLedgerUpdate ==
  (proc = "serving" /\ AllReturned)
    => \A i \in 1..Len(routines) :
         routines[i].handler = "tx"
           => /\ InMempool(Mempool, routines[i].tx) \/ BlocksHolding(routines[i].tx) # {}
              /\ Cardinality(BlocksHolding(routines[i].tx)) <= 1

---------------------------------------------------------------------------
(* Framing, as handleConnection reads it *)

\* C17: when a handler of a known command runs on a connection, the bytes it
\* decodes as its payload (request[commandLength:]) are the bytes the peer
\* wrote after the command field.
C17_HandlerGetsPayload ==
  (/\ last.handler \in {HandlerName(command) : command \in KnownCommands}
   /\ Len(last.wire) > commandLength)
    => Drop(last.request, commandLength) = Drop(last.wire, commandLength)

---------------------------------------------------------------------------
(* Concurrent handlers: the peer list and the mining trigger *)

\* C18: whatever the interleaving of the version and addr handlers, no
\* address is in knownNodes twice, and every address a handler has appended
\* is in it.
C18_PeerListAtomic ==
  /\ \A j, k \in 1..Len(knownNodes) : knownNodes[j] = knownNodes[k] => j = k
  /\ \A i \in 1..Len(routines) :
       \A a \in routines[i].added : nodeIsKnown(knownNodes, a)

\* The first half alone, and the second.
NoAddressTwice ==
  \A j, k \in 1..Len(knownNodes) : knownNodes[j] = knownNodes[k] => j = k

NoAddressLost ==
  \A i \in 1..Len(routines) :
    \A a \in routines[i].added : nodeIsKnown(knownNodes, a)

\* C19: MineBlock never starts folding an empty mempool into a block, and no
\* block after the genesis block has an empty payload.
C19_NeverMinesEmpty ==
  /\ \A i \in 1..Len(routines) :
       routines[i].pc = "AddBlock" => routines[i].tmp # <<>>
  /\ \A k \in 2..Len(Blocks) : Blocks[k].payload # <<>>

---------------------------------------------------------------------------
(* The version exchange between two nodes: the bootstrap node and one      *)
(* other, each a build of this program with a nodeVersion and a chain of   *)
(* its own.  Only version messages are followed: StartNode and             *)
(* handleVersion are the only callers of sendVersion.                      *)

\* What sendVersion writes for a build whose nodeVersion is version.
versionMessage(address, version, height, self) ==
  [to |-> address,
   data |-> Message(cmdVersion, [Version |-> version, BestHeight |-> height,
                                 AddrFrom |-> self])]

\* (mutant) a peer of the same version is answered too.
versionRepliesToEqual(self, version, height, payload) ==
  (IF payload.Version <= version
   THEN <<versionMessage(payload.AddrFrom, version, height, self)>> ELSE <<>>)
  \o (IF payload.BestHeight > height
      THEN <<sendGetBlocks(payload.AddrFrom, self)>> ELSE <<>>)

\* handleVersion's sends for the node self: its version if the peer's is
\* lower, then getblocks if the peer's chain is longer.
versionReplies(self, version, height, payload) ==
  (IF payload.Version < version
   THEN <<versionMessage(payload.AddrFrom, version, height, self)>> ELSE <<>>)
  \o (IF payload.BestHeight > height
      THEN <<sendGetBlocks(payload.AddrFrom, self)>> ELSE <<>>)

\* Two nodes, not started yet; every message sent is kept in log, with the
\* message whose handling sent it (cause, 0 for StartNode).
ExchangeInit ==
  /\ nodeAddress = NoAddr
  /\ knownNodes = BootstrapNodes
  /\ Blocks = <<>>
  /\ Mempool = <<>>
  /\ proc = "off"
  /\ cause = ""
  /\ sent = <<>>
  /\ last = NoOp
  /\ codec = NoCodec
  /\ routines = NoRoutines
  /\ \E v \in [NodeAddrs -> 0..MaxPeerVersion], h \in [NodeAddrs -> 1..MaxHeight] :
       exchange = [state |-> "run", version |-> v, height |-> h,
                   listening |-> {}, dead |-> {}, flight |-> {}, log |-> <<>>]

ExchangeOnly ==
  UNCHANGED <<nodeAddress, knownNodes, Blocks, Mempool, proc, cause, sent, last,
              codec, routines>>

\* The outcomes the sends can meet: nothing listens at a node that is not
\* at its accept loop, so the dial fails.
Reachable(outs, net) ==
  \A k \in 1..Len(outs) : outs[k].to \notin exchange.listening => net[k] = "dial"

\* The node self has made the sendData calls done while handling message
\* number why: the version messages among them go to the log, the written
\* ones are in flight, and a failed write ends the process.
Exchanged(self, done, why, handled) ==
  LET versions == SelectSeq(done, LAMBDA s : CommandOf(s.data) = cmdVersion)
      entries == [k \in 1..Len(versions) |->
                    [from |-> self, to |-> versions[k].to,
                     payload |-> gobDecode(Drop(versions[k].data, commandLength),
                                           ZeroVersion).value,
                     cause |-> why, result |-> versions[k].result]]
      written == {Len(exchange.log) + k : k \in {j \in 1..Len(entries) :
                                                   entries[j].result = "written"}}
  IN exchange' =
       [exchange EXCEPT
          !.log = exchange.log \o entries,
          !.flight = (exchange.flight \ handled) \cup written,
          !.dead = IF Panicked(done) THEN exchange.dead \cup {self} ELSE exchange.dead,
          !.listening = IF Panicked(done) THEN exchange.listening \ {self}
                        ELSE exchange.listening \cup {self}]

\* StartNode of one of the two nodes.
ExchangeStart ==
  \E self \in NodeAddrs :
    LET outs == IF self # Bootstrap
                THEN <<versionMessage(Bootstrap, exchange.version[self],
                                      GetBestHeight(NewBlockchain), self)>>
                ELSE <<>>
    IN /\ self \notin exchange.listening \cup exchange.dead
       /\ \E net \in [1..Len(outs) -> Outcomes] :
            /\ Reachable(outs, net)
            /\ Exchanged(self, Transmit(outs, net), 0, {})
       /\ ExchangeOnly

\* A node handles a version message written to it.
ExchangeHandle ==
  \E i \in exchange.flight :
    LET self == exchange.log[i].to
        outs == versionReplies(self, exchange.version[self], exchange.height[self],
                               exchange.log[i].payload)
    IN /\ self \in exchange.listening
       /\ \E net \in [1..Len(outs) -> Outcomes] :
            /\ Reachable(outs, net)
            /\ Exchanged(self, Transmit(outs, net), i, {i})
       /\ ExchangeOnly

ExchangeNext == ExchangeStart \/ ExchangeHandle

ExchangeSpec == ExchangeInit /\ [][ExchangeNext]_vars

\* The version messages sent while handling message number i.
RepliesTo(i) == {j \in 1..Len(exchange.log) : exchange.log[j].cause = i}

\* C20: a version message is answered with at most one version message, an
\* answer comes only from the node with the strictly higher version and is
\* itself never answered, so the exchange a StartNode opens is over after
\* two version messages at most.
C20_VersionExchangeEnds ==
  /\ \A i \in 1..Len(exchange.log) :
       /\ Cardinality(RepliesTo(i)) <= 1
       /\ exchange.log[i].cause # 0
            => /\ exchange.version[exchange.log[i].from]
                    > exchange.version[exchange.log[i].to]
               /\ exchange.log[i].to = exchange.log[exchange.log[i].cause].from
               /\ RepliesTo(i) = {}
  /\ Len(exchange.log) <= 2

\* The bootstrap node has answered the other node's version with its own,
\* and that answer has been handled.
C20_Witness ==
  /\ Len(exchange.log) = 2
  /\ exchange.log[2].cause = 1
  /\ exchange.log[2].result = "written"
  /\ exchange.flight = {}
  /\ exchange.dead = {}

====
